---- MODULE Spec2Model ----
(***************************************************************************)
(* Model of the Star Wars knowledge-graph builder (src/main.py) and of the *)
(* question answering system (src/qa.py).                                  *)
(*                                                                         *)
(* The graph database is the state: a sequence of nodes, a bag of          *)
(* relationships, the uniqueness constraints and the indexes.  Every       *)
(* method of StarWarsKnowledgeGraphBuilder is one action that runs the     *)
(* whole method; run_pipeline is the sequence of these actions driven by   *)
(* pc.  Every call to the database, to the extractor or to the loader may  *)
(* raise: the action picks the set of calls that raise (F), at most        *)
(* MaxFaults of them in one behaviour.                                     *)
(*                                                                         *)
(* Spec follows the builder, SpecQA the question answering and its         *)
(* validation harness, SpecEnv the constructors of both classes from the   *)
(* environment of the process, SpecLoop the interactive loop of the QA     *)
(* entry point.                                                            *)
(***************************************************************************)
EXTENDS Integers, Sequences, FiniteSets, Bags, TLC

VARIABLES
    nodes,          \* the nodes of the graph, in creation order
    rels,           \* the relationships: a bag of [src, type, dst]
    constraints,    \* labels whose identifying property is declared unique
    indexes,        \* names of the indexes created
    pc,             \* "idle", or the step run_pipeline is about to take
    pipe,           \* outcome of the last run_pipeline
    trace,          \* the steps the current run_pipeline has executed
    op,             \* the method that has just run, NoOp once its caller resumed
    log,            \* what that method attempted, with each outcome
    raised,         \* the exception that method let escape, or NoError
    total,          \* len(chunks), the two counters and the value returned by process_chunks_to_graph
    stats,          \* the value validate_graph returned
    before,         \* size and seeding of the graph when that method was entered
    faults,         \* calls that raised so far
    calls,          \* calls made by the user of the builder so far
    run,            \* the current run_pipeline: its argument, the graph it found, what its clear step did
    answer,         \* the value ask_with_context returned last
    environ,        \* os.environ: the value of each required key
    boot,           \* the construction of an object: class, position, what it has created
    validation,     \* the value validate_knowledge_base returned last
    session         \* the interactive loop of the QA entry point

vars == << nodes, rels, constraints, indexes, pc, pipe, trace, op, log,
           raised, total, stats, before, faults, calls, run, answer,
           environ, boot, validation, session >>

builder_vars == << nodes, rels, constraints, indexes, pc, pipe, trace, op,
                   log, raised, total, stats, before, faults, calls, run >>

entry_vars == << environ, boot, validation, session >>

(***************************************************************************)
(* Bounds of the model.                                                    *)
(***************************************************************************)
MaxChunks == 2
MaxFaults == 1
MaxCalls == 2
MaxReads == 4

NoKey == "-"
NoId == "-"
NoError == "-"
NoOp == "-"
Null == << >>
NoStats == [node_counts |-> << >>, relationship_counts |-> << >>,
            totals |-> [total_nodes |-> -1, total_relationships |-> -1]]
NoTotal == [chunks |-> 0, entities |-> 0, relationships |-> 0, ret |-> 0]
NoSnapshot == [nodes |-> -1, relationships |-> -1, seeded |-> FALSE]
NoRun == [clear_existing |-> FALSE, prior |-> NoSnapshot, clear |-> "-"]

DB == [nodes |-> nodes, rels |-> rels, constraints |-> constraints,
       indexes |-> indexes]

EmptyGraph_relationships_only(db) == [db EXCEPT !.rels = EmptyBag]

\* MATCH (n) DETACH DELETE n
EmptyGraph(db) == [db EXCEPT !.nodes = << >>, !.rels = EmptyBag]

(***************************************************************************)
(* The database engine, as far as the statements of main.py use it.        *)
(* A node is [label, id, key, props]: key is the value of the identifying  *)
(* property of its label (nome, or titulo for Filme), NoKey when the node  *)
(* has none; id is the property the loader merges on (NoId on nodes made   *)
(* by the manual statements); props tells the other properties apart:      *)
(* "curated" is the property map the manual statements write, "extracted"  *)
(* any other one.                                                          *)
(***************************************************************************)
\* Two nodes of the label carry the same value of its identifying property.
Duplicated(ns, label) ==
    LET keyed == {i \in 1..Len(ns) : ns[i].label = label /\ ns[i].key # NoKey}
    IN  Cardinality({ns[i].key : i \in keyed}) < Cardinality(keyed)

\* A write is committed only if every declared constraint still holds.
Accepts(db, ns) == \A l \in db.constraints : ~Duplicated(ns, l)

Matching(ns, label, key) ==
    {i \in 1..Len(ns) : ns[i].label = label /\ ns[i].key = key}

Curated(label, key) ==
    [label |-> label, id |-> NoId, key |-> key, props |-> "curated"]

\* CREATE (:Label {...}) for each key: always a new node.
RECURSIVE CreateAll(_, _, _, _)
CreateAll(ns, label, keys, i) ==
    IF i > Len(keys) THEN ns
    ELSE CreateAll(Append(ns, Curated(label, keys[i])), label, keys, i + 1)

\* MERGE (:Label {...}) for each key: the pattern matches a node only if
\* the label and every property of the map agree; otherwise it creates one.
RECURSIVE MergeAll(_, _, _, _)
MergeAll(ns, label, keys, i) ==
    IF i > Len(keys) THEN ns
    ELSE IF \E k \in 1..Len(ns) : /\ ns[k].label = label
                                  /\ ns[k].key = keys[i]
                                  /\ ns[k].props = "curated"
         THEN MergeAll(ns, label, keys, i + 1)
         ELSE MergeAll(Append(ns, Curated(label, keys[i])), label, keys, i + 1)

\* MATCH luke, MATCH leia, MATCH vader: one row per combination of matches;
\* each row CREATEs three relationships.
FamilyRows(ns) ==
    Matching(ns, "Personagem", "Luke Skywalker")
        \X Matching(ns, "Personagem", "Leia Organa")
        \X Matching(ns, "Personagem", "Darth Vader")

FamilyRels(row) ==
    { [src |-> row[3], type |-> "FILHO_DE", dst |-> row[1]],
      [src |-> row[3], type |-> "FILHO_DE", dst |-> row[2]],
      [src |-> row[1], type |-> "IRMAO_DE", dst |-> row[2]] }

FamilyBag(ns) ==
    LET rows == FamilyRows(ns)
        made == UNION {FamilyRels(row) : row \in rows}
    IN  [r \in made |-> Cardinality({row \in rows : r \in FamilyRels(row)})]

(***************************************************************************)
(* graph.query(statement).  fault: the call raises for a reason of its own *)
(* (connection, timeout).  Outcomes: "ok", "fault", and "rejected" when    *)
(* the engine refuses the statement; both of the last two are exceptions   *)
(* for the caller and leave the database as it was.                        *)
(***************************************************************************)
Query(db, stmt, fault) ==
    IF fault THEN [db |-> db, outcome |-> "fault"]
    ELSE CASE stmt.kind = "clear" ->
                [db |-> EmptyGraph(db), outcome |-> "ok"]
           [] stmt.kind = "constraint" ->
                IF stmt.label \in db.constraints
                THEN [db |-> db, outcome |-> "ok"]
                ELSE IF Duplicated(db.nodes, stmt.label)
                THEN [db |-> db, outcome |-> "rejected"]
                ELSE [db |-> [db EXCEPT !.constraints = @ \cup {stmt.label}],
                      outcome |-> "ok"]
           [] stmt.kind = "index" ->
                [db |-> [db EXCEPT !.indexes = @ \cup {stmt.name}],
                 outcome |-> "ok"]
           [] stmt.kind = "create" ->
                LET ns == CreateAll(db.nodes, stmt.label, stmt.keys, 1)
                IN  IF Accepts(db, ns)
                    THEN [db |-> [db EXCEPT !.nodes = ns], outcome |-> "ok"]
                    ELSE [db |-> db, outcome |-> "rejected"]
           [] stmt.kind = "merge" ->
                LET ns == MergeAll(db.nodes, stmt.label, stmt.keys, 1)
                IN  IF Accepts(db, ns)
                    THEN [db |-> [db EXCEPT !.nodes = ns], outcome |-> "ok"]
                    ELSE [db |-> db, outcome |-> "rejected"]
           [] stmt.kind = "family" ->
                [db |-> [db EXCEPT !.rels = @ (+) FamilyBag(db.nodes)],
                 outcome |-> "ok"]

(***************************************************************************)
(* The statements of main.py.                                              *)
(***************************************************************************)
Stmt(kind, name, label, keys) ==
    [kind |-> kind, name |-> name, label |-> label, keys |-> keys]

clear_statement == Stmt("clear", "MATCH (n) DETACH DELETE n", "-", << >>)

constraint_statements ==
    << Stmt("constraint", "personagem_nome", "Personagem", << >>),
       Stmt("constraint", "filme_titulo", "Filme", << >>),
       Stmt("constraint", "planeta_nome", "Planeta", << >>),
       Stmt("constraint", "nave_nome", "Nave", << >>),
       Stmt("constraint", "faccao_nome", "Faccao", << >>) >>

index_statements ==
    << Stmt("index", "personagem_nome_idx", "Personagem", << >>),
       Stmt("index", "filme_ano_idx", "Filme", << >>),
       Stmt("index", "planeta_clima_idx", "Planeta", << >>) >>

manual_data ==
    << Stmt("create", "filmes", "Filme",
            << "Episodio IV", "Episodio V", "Episodio VI" >>),
       Stmt("merge", "personagens", "Personagem",
            << "Luke Skywalker", "Leia Organa", "Han Solo", "Darth Vader" >>),
       Stmt("merge", "planetas", "Planeta",
            << "Tatooine", "Alderaan", "Hoth" >>),
       Stmt("family", "familia", "Personagem", << >>) >>

ConstrainedLabels == {constraint_statements[i].label : i \in 1..Len(constraint_statements)}

(***************************************************************************)
(* for statement in statements: try: graph.query(statement)                *)
(*                              except Exception: logger.warning(...)      *)
(* F is the set of positions whose call raises on its own.                 *)
(***************************************************************************)
AfterStatement_abort(i, n, outcome) == IF outcome = "ok" THEN i + 1 ELSE n + 1

\* The except clause only logs: the loop goes on with the next statement.
AfterStatement(i, n, outcome) == i + 1

RECURSIVE RunStatements(_, _, _, _, _)
RunStatements(stmts, i, F, db, lg) ==
    IF i > Len(stmts) THEN [db |-> db, log |-> lg]
    ELSE LET r == Query(db, stmts[i], i \in F)
         IN  RunStatements(stmts, AfterStatement(i, Len(stmts), r.outcome), F,
                 r.db, Append(lg, [stmt |-> stmts[i].name, outcome |-> r.outcome]))

Faulted(lg) == {i \in 1..Len(lg) : lg[i].outcome = "fault"}

clear_existing_data(db, F) == RunStatements(<< clear_statement >>, 1, F, db, << >>)

create_constraints_and_indexes(db, Fc, Fi) ==
    LET c == RunStatements(constraint_statements, 1, Fc, db, << >>)
    IN  RunStatements(index_statements, 1, Fi, c.db, c.log)

add_manual_knowledge(db, F) == RunStatements(manual_data, 1, F, db, << >>)

(***************************************************************************)
(* The extractor and the loader (library calls).  A fragment is what       *)
(* convert_to_graph_documents returns for one chunk: nodes [label, id,     *)
(* key] and relationships between positions of its node list.              *)
(***************************************************************************)
FragNode(label, id, key) == [label |-> label, id |-> id, key |-> key]
FragRel(src, type, dst) == [src |-> src, type |-> type, dst |-> dst]

Fragments ==
    [ nothing |-> [nodes |-> << >>, relationships |-> << >>],
      luke    |-> [nodes |-> << FragNode("Personagem", "Luke Skywalker", "Luke Skywalker"),
                                FragNode("Planeta", "Tatooine", "Tatooine") >>,
                   relationships |-> << FragRel(1, "NASCEU_EM", 2) >>],
      alias   |-> [nodes |-> << FragNode("Personagem", "Luke", "Luke Skywalker") >>,
                   relationships |-> << >>] ]

FragmentNames == DOMAIN Fragments

Position(ns, label, id) ==
    CHOOSE i \in 1..Len(ns) : ns[i].label = label /\ ns[i].id = id

\* MERGE (n:Label {id}) SET n += properties, node by node.
RECURSIVE LoadNodes(_, _, _)
LoadNodes(ns, fnodes, i) ==
    IF i > Len(fnodes) THEN ns
    ELSE LET f == fnodes[i]
             hit == {k \in 1..Len(ns) : ns[k].label = f.label /\ ns[k].id = f.id}
         IN  IF hit = {}
             THEN LoadNodes(Append(ns, [label |-> f.label, id |-> f.id,
                                        key |-> f.key, props |-> "extracted"]),
                            fnodes, i + 1)
             ELSE LET k == CHOOSE k \in hit : TRUE
                  IN  LoadNodes([ns EXCEPT ![k].key = IF f.key = NoKey THEN @ ELSE f.key,
                                            ![k].props = "extracted"],
                                fnodes, i + 1)

\* MERGE (source)-[r:TYPE]->(target): at most one such relationship is added.
RECURSIVE LoadRels(_, _, _, _)
LoadRels(rs, ns, frag, i) ==
    IF i > Len(frag.relationships) THEN rs
    ELSE LET f == frag.relationships[i]
             r == [src |-> Position(ns, frag.nodes[f.src].label, frag.nodes[f.src].id),
                   type |-> f.type,
                   dst |-> Position(ns, frag.nodes[f.dst].label, frag.nodes[f.dst].id)]
         IN  LoadRels(IF BagIn(r, rs) THEN rs ELSE rs (+) SetToBag({r}), ns, frag, i + 1)

add_graph_documents(db, frag, fault) ==
    IF fault THEN [db |-> db, outcome |-> "load_fault"]
    ELSE LET ns == LoadNodes(db.nodes, frag.nodes, 1)
         IN  IF Accepts(db, ns)
             THEN [db |-> [db EXCEPT !.nodes = ns,
                                     !.rels = LoadRels(db.rels, ns, frag, 1)],
                   outcome |-> "ok"]
             ELSE [db |-> db, outcome |-> "load_rejected"]

(***************************************************************************)
(* process_chunks_to_graph.  A chunk is [extract, load_fault]: extract is  *)
(* the fragment the extractor returns for it, or "extract_fault" when the  *)
(* extraction raises; load_fault tells whether the load raises on its own. *)
(***************************************************************************)
Chunk(extract, load_fault) == [extract |-> extract, load_fault |-> load_fault]

ChunkOutcomes ==
    {Chunk("extract_fault", FALSE)}
        \cup {Chunk(f, b) : f \in FragmentNames, b \in BOOLEAN}

ChunkFaults(chunks) ==
    Cardinality({i \in 1..Len(chunks) :
                    chunks[i].extract = "extract_fault" \/ chunks[i].load_fault})

Size(f) == Len(Fragments[f].nodes) + Len(Fragments[f].relationships)

AfterChunk_abort(i, n, outcome) == IF outcome = "ok" THEN i + 1 ELSE n + 1

\* except Exception: logger.error(...); continue
AfterChunk(i, n, outcome) == i + 1

ChunkEntry(i, outcome, size) == [stmt |-> i, outcome |-> outcome, size |-> size]

RECURSIVE ProcessChunks(_, _, _, _, _, _)
ProcessChunks(chunks, i, db, lg, total_entities, total_relationships) ==
    IF i > Len(chunks)
    THEN [db |-> db, log |-> lg,
          total |-> [chunks |-> Len(chunks),
                     entities |-> total_entities,
                     relationships |-> total_relationships,
                     ret |-> total_entities + total_relationships]]
    ELSE IF chunks[i].extract = "extract_fault"
    THEN ProcessChunks(chunks, AfterChunk(i, Len(chunks), "extract_fault"), db,
                       Append(lg, ChunkEntry(i, "extract_fault", 0)),
                       total_entities, total_relationships)
    ELSE LET frag == Fragments[chunks[i].extract]
             r == add_graph_documents(db, frag, chunks[i].load_fault)
         IN  ProcessChunks(chunks, AfterChunk(i, Len(chunks), r.outcome), r.db,
                           Append(lg, ChunkEntry(i, r.outcome, Size(chunks[i].extract))),
                           total_entities + Len(frag.nodes),
                           total_relationships + Len(frag.relationships))

process_chunks_to_graph(db, chunks) == ProcessChunks(chunks, 1, db, << >>, 0, 0)

(***************************************************************************)
(* validate_graph: the three statistics queries.                           *)
(***************************************************************************)
RelInstances(rs) == UNION {{<< r, k >> : k \in 1..rs[r]} : r \in DOMAIN rs}

OfType(rs, t) == [r \in {x \in DOMAIN rs : x.type = t} |-> rs[r]]

\* MATCH (n) RETURN labels(n)[0] as label, count(n) as count
node_counts(db) ==
    [l \in {db.nodes[i].label : i \in 1..Len(db.nodes)} |->
        Cardinality({i \in 1..Len(db.nodes) : db.nodes[i].label = l})]

\* MATCH ()-[r]->() RETURN type(r) as relationship, count(r) as count
relationship_counts(db) ==
    [t \in {r.type : r \in DOMAIN db.rels} |-> BagCardinality(OfType(db.rels, t))]

\* MATCH (n) OPTIONAL MATCH ()-[r]->(): every node is paired with every
\* relationship of the graph, or with null when the graph has none.
TotalMatch(db) ==
    LET ri == RelInstances(db.rels)
    IN  IF ri = {} THEN (1..Len(db.nodes)) \X {Null}
        ELSE (1..Len(db.nodes)) \X ri

Aggregate(rows) ==
    [total_nodes |-> Cardinality({row[1] : row \in rows}),
     total_relationships |-> Cardinality({row \in rows : row[2] # Null})]

TotalRows_grouped(db) ==
    LET rows == TotalMatch(db)
    IN  IF rows = {} THEN << >> ELSE << Aggregate(rows) >>

\* RETURN count(DISTINCT n), count(r): an aggregation without grouping keys
\* returns one row, also over no rows at all.
TotalRows(db) == << Aggregate(TotalMatch(db)) >>

\* f = 0: no query raises; f = k: the k-th query raises.  [0] of an empty
\* result raises IndexError.
validate_graph(db, f) ==
    IF f # 0 THEN [raised |-> "QueryError", stats |-> NoStats]
    ELSE LET total_stats == TotalRows(db)
         IN  IF Len(total_stats) = 0
             THEN [raised |-> "IndexError", stats |-> NoStats]
             ELSE [raised |-> NoError,
                   stats |-> [node_counts |-> node_counts(db),
                              relationship_counts |-> relationship_counts(db),
                              totals |-> total_stats[1]]]

(***************************************************************************)
(* setup_environment, the same method in both classes.  os.getenv gives    *)
(* None for a key that is absent; None and the empty string are false.     *)
(***************************************************************************)
required_vars == << "OPENAI_API_KEY", "NEO4J_URI", "NEO4J_USERNAME", "NEO4J_PASSWORD" >>

Keys == {required_vars[i] : i \in 1..Len(required_vars)}

None == "<None>"

Environments == [Keys -> {None, "", "value"}]

Configured == [k \in Keys |-> "value"]

Classes == {"StarWarsKnowledgeGraphBuilder", "StarWarsQASystem"}

NotConstructed ==
    [class |-> "-", pc |-> "off", created |-> << >>, read |-> << >>,
     raised |-> NoError, key |-> NoKey]

getenv(env, var) == env[var]

Not_is_None(value) == value = None

\* `not value` for a value that is None or a string.
Not(value) == value = None \/ value = ""

\* for var in required_vars: `read` lists the keys looked at, in order.
RECURSIVE CheckVars(_, _, _)
CheckVars(env, i, read) ==
    IF i > Len(required_vars)
    THEN [environ |-> env, read |-> read, raised |-> NoError, key |-> NoKey]
    ELSE LET var == required_vars[i]
         IN  IF Not(getenv(env, var))
             THEN [environ |-> env, read |-> Append(read, var),
                   raised |-> "ValueError", key |-> var]
             ELSE CheckVars([env EXCEPT ![var] = getenv(env, var)], i + 1,
                            Append(read, var))

setup_environment(env) == CheckVars(env, 1, << >>)

(***************************************************************************)
(* The builder.  A method is called by the user of the builder when pc is  *)
(* "idle", or by run_pipeline when pc names it.                            *)
(***************************************************************************)
NoAnswer == [result |-> "-", question |-> "-", invocation |-> "-"]

NoValidation ==
    [total_questions |-> 0, answered_questions |-> 0,
     success_rate |-> [num |-> 0, den |-> 1], results |-> << >>,
     invocations |-> << >>]

NoInput == [raises |-> "-", line |-> << >>, at_end |-> FALSE]

NoAnswering == [raises |-> "-", inv |-> "-"]

NoSession ==
    [state |-> "off", reads |-> 0, eof |-> FALSE,
     last |-> [input |-> NoInput, answering |-> NoAnswering],
     asked |-> FALSE, result |-> "-", printed |-> "nothing"]

Init ==
    /\ nodes = << >>
    /\ rels = EmptyBag
    /\ constraints = {}
    /\ indexes = {}
    /\ pc = "idle"
    /\ pipe = "none"
    /\ trace = << >>
    /\ op = NoOp
    /\ log = << >>
    /\ raised = NoError
    /\ total = NoTotal
    /\ stats = NoStats
    /\ before = NoSnapshot
    /\ faults = 0
    /\ calls = 0
    /\ run = NoRun
    /\ answer = NoAnswer
    /\ environ = Configured
    /\ boot = NotConstructed
    /\ validation = NoValidation
    /\ session = NoSession

\* The curated facts of manual_data are in the graph: every node with the
\* properties the statement writes, and the three family relationships.
CuratedPresent(db) ==
    /\ \A s \in 1..Len(manual_data) : \A k \in 1..Len(manual_data[s].keys) :
          \E i \in 1..Len(db.nodes) :
              db.nodes[i] = Curated(manual_data[s].label, manual_data[s].keys[k])
    /\ \E row \in FamilyRows(db.nodes) : \A r \in FamilyRels(row) : BagIn(r, db.rels)

Snapshot(db) ==
    [nodes |-> Len(db.nodes), relationships |-> BagCardinality(db.rels),
     seeded |-> CuratedPresent(db)]

Commit(db) ==
    /\ nodes' = db.nodes
    /\ rels' = db.rels
    /\ constraints' = db.constraints
    /\ indexes' = db.indexes

\* The method `name` is entered, from the user or as a step of run_pipeline,
\* and control goes to `next` when it returns.
Enter(name, next) ==
    /\ op = NoOp
    /\ op' = name
    /\ before' = Snapshot(DB)
    /\ \/ /\ pc = "idle"
          /\ calls < MaxCalls
          /\ calls' = calls + 1
          /\ UNCHANGED << pc, pipe, trace >>
       \/ /\ pc = name
          /\ pc' = next
          /\ trace' = Append(trace, name)
          /\ UNCHANGED << calls, pipe >>

CanRaise(n) == faults + n <= MaxFaults

Clear ==
    /\ Enter("clear", "schema")
    /\ \E F \in SUBSET {1} :
          /\ CanRaise(Cardinality(F))
          /\ LET r == clear_existing_data(DB, F)
             IN  /\ Commit(r.db)
                 /\ log' = r.log
                 /\ faults' = faults + Cardinality(Faulted(r.log))
                 /\ run' = IF pc = "clear"
                           THEN [run EXCEPT !.clear = r.log[1].outcome]
                           ELSE run
    /\ raised' = NoError
    /\ UNCHANGED << total, stats, answer, entry_vars >>

Schema ==
    /\ Enter("schema", "load")
    /\ \E Fc \in SUBSET (1..Len(constraint_statements)),
          Fi \in SUBSET (1..Len(index_statements)) :
          /\ CanRaise(Cardinality(Fc) + Cardinality(Fi))
          /\ LET r == create_constraints_and_indexes(DB, Fc, Fi)
             IN  /\ Commit(r.db)
                 /\ log' = r.log
                 /\ faults' = faults + Cardinality(Faulted(r.log))
    /\ raised' = NoError
    /\ UNCHANGED << total, stats, answer, entry_vars, run >>

\* load_and_process_documents: the path is checked when the step is reached.
Load ==
    /\ op = NoOp
    /\ pc = "load"
    /\ op' = "load"
    /\ before' = Snapshot(DB)
    /\ trace' = Append(trace, "load")
    /\ \E exists \in BOOLEAN :
          IF exists
          THEN /\ pc' = "chunks"
               /\ raised' = NoError
               /\ pipe' = pipe
          ELSE /\ pc' = "idle"
               /\ raised' = "FileNotFoundError"
               /\ pipe' = "raised"
    /\ UNCHANGED << nodes, rels, constraints, indexes, log, total, stats,
                    faults, calls, answer, entry_vars, run >>

Chunks ==
    /\ Enter("chunks", "manual")
    /\ \E n \in 0..MaxChunks :
       \E chunks \in [1..n -> ChunkOutcomes] :
          /\ CanRaise(ChunkFaults(chunks))
          /\ LET r == process_chunks_to_graph(DB, chunks)
             IN  /\ Commit(r.db)
                 /\ log' = r.log
                 /\ total' = r.total
                 /\ faults' = faults + Cardinality(
                        {i \in 1..Len(r.log) : r.log[i].outcome \in
                            {"extract_fault", "load_fault"}})
    /\ raised' = NoError
    /\ UNCHANGED << stats, answer, entry_vars, run >>

Manual ==
    /\ Enter("manual", "validate")
    /\ \E F \in SUBSET (1..Len(manual_data)) :
          /\ CanRaise(Cardinality(F))
          /\ LET r == add_manual_knowledge(DB, F)
             IN  /\ Commit(r.db)
                 /\ log' = r.log
                 /\ faults' = faults + Cardinality(Faulted(r.log))
    /\ raised' = NoError
    /\ UNCHANGED << total, stats, answer, entry_vars, run >>

\* validate_graph has no handler of its own: in run_pipeline its exception
\* is logged and raised again.
Validate ==
    /\ op = NoOp
    /\ op' = "validate"
    /\ before' = Snapshot(DB)
    /\ \E f \in 0..3 :
          /\ CanRaise(IF f = 0 THEN 0 ELSE 1)
          /\ LET r == validate_graph(DB, f)
             IN  /\ raised' = r.raised
                 /\ stats' = r.stats
                 /\ faults' = faults + (IF f = 0 THEN 0 ELSE 1)
                 /\ \/ /\ pc = "idle"
                       /\ calls < MaxCalls
                       /\ calls' = calls + 1
                       /\ UNCHANGED << pc, pipe, trace >>
                    \/ /\ pc = "validate"
                       /\ pc' = "idle"
                       /\ trace' = Append(trace, "validate")
                       /\ pipe' = IF r.raised = NoError THEN "returned" ELSE "raised"
                       /\ UNCHANGED calls
    /\ UNCHANGED << nodes, rels, constraints, indexes, log, total, answer, entry_vars, run >>

FirstStep_path_check(clear_existing) == "load"

\* if clear_existing: self.clear_existing_data()
FirstStep(clear_existing) == IF clear_existing THEN "clear" ELSE "schema"

\* run_pipeline(pdf_path, clear_existing)
StartPipeline ==
    /\ op = NoOp
    /\ pc = "idle"
    /\ calls < MaxCalls
    /\ calls' = calls + 1
    /\ pipe' = "running"
    /\ trace' = << >>
    /\ \E clear_existing \in BOOLEAN :
          /\ pc' = FirstStep(clear_existing)
          /\ run' = [clear_existing |-> clear_existing, prior |-> Snapshot(DB),
                     clear |-> "-"]
    /\ UNCHANGED << nodes, rels, constraints, indexes, op, log, raised, total,
                    stats, before, faults, answer, entry_vars >>

\* The caller of the method that has just run goes on: the value returned,
\* or the exception, is consumed.
Resume ==
    /\ op # NoOp
    /\ op' = NoOp
    /\ log' = << >>
    /\ raised' = NoError
    /\ total' = NoTotal
    /\ stats' = NoStats
    /\ before' = NoSnapshot
    /\ pipe' = IF pc = "idle" THEN "none" ELSE pipe
    /\ trace' = IF pc = "idle" THEN << >> ELSE trace
    /\ run' = IF pc = "idle" THEN NoRun ELSE run
    /\ UNCHANGED << nodes, rels, constraints, indexes, pc, faults, calls, answer, entry_vars >>

Next ==
    \/ StartPipeline
    \/ Clear
    \/ Schema
    \/ Load
    \/ Chunks
    \/ Manual
    \/ Validate
    \/ Resume

Spec == Init /\ [][Next]_vars

(***************************************************************************)
(* __init__ of StarWarsKnowledgeGraphBuilder and of StarWarsQASystem: the  *)
(* four statements of the constructor, in order.  An exception leaves the  *)
(* constructor at the statement that raised it.                            *)
(***************************************************************************)
\* main: a process started with the environment env constructs the object.
Construct ==
    /\ boot.pc = "off"
    /\ \E env \in Environments, class \in Classes :
          /\ environ' = env
          /\ boot' = [NotConstructed EXCEPT !.class = class,
                                            !.pc = "setup_environment"]
    /\ UNCHANGED << builder_vars, answer, validation, session >>

SetupEnvironment ==
    /\ boot.pc = "setup_environment"
    /\ LET r == setup_environment(environ)
       IN  /\ environ' = r.environ
           /\ boot' = [boot EXCEPT !.read = r.read,
                                   !.raised = r.raised,
                                   !.key = r.key,
                                   !.pc = IF r.raised = NoError
                                          THEN "llm" ELSE "failed"]
    /\ UNCHANGED << builder_vars, answer, validation, session >>

\* The statement at `at` creates `component` and goes to `next`, or raises.
Create(at, component, next, error) ==
    /\ boot.pc = at
    /\ \E ok \in BOOLEAN :
          boot' = IF ok
                  THEN [boot EXCEPT !.created = Append(@, component),
                                    !.pc = next]
                  ELSE [boot EXCEPT !.raised = error, !.pc = "failed"]
    /\ UNCHANGED << builder_vars, answer, environ, validation, session >>

CreateLLM == Create("llm", "llm", "graph", "ValidationError")

SetupNeo4jConnection == Create("graph", "graph", "last", "ConnectionError")

\* self.transformer in the builder, self.qa_chain in the QA system.
SetupLast ==
    Create("last",
           IF boot.class = "StarWarsQASystem" THEN "qa_chain" ELSE "transformer",
           "ready", "ValidationError")

NextEnv ==
    \/ Construct
    \/ SetupEnvironment
    \/ CreateLLM
    \/ SetupNeo4jConnection
    \/ SetupLast

SpecEnv == Init /\ [][NextEnv]_vars

(***************************************************************************)
(* StarWarsQASystem.ask_with_context (src/qa.py).  The chain is a library  *)
(* call: it raises in one of its three stages, or returns a response.  A   *)
(* string that is a text is a sequence of phrases, << >> the empty text.   *)
(***************************************************************************)
Questions == {"Quem sao os filhos de Darth Vader?", "Quais planetas tem clima arido?"}

Step(dict, has_query, query, has_context, context) ==
    [dict |-> dict, has_query |-> has_query, query |-> query,
     has_context |-> has_context, context |-> context]

Rows == {<< >>, << "Luke Skywalker", "Leia Organa" >>}
Queries == {"MATCH (v)-[:FILHO_DE]->(f) RETURN f.nome", "MATCH (p:Planeta) RETURN p.nome"}

Steps ==
    {Step(TRUE, TRUE, q, FALSE, << >>) : q \in Queries}
        \cup {Step(TRUE, FALSE, "", TRUE, r) : r \in Rows}
        \cup {Step(TRUE, FALSE, "", FALSE, << >>), Step(FALSE, FALSE, "", FALSE, << >>)}

Answers == {<< >>, << "Luke Skywalker e Leia Organa" >>, << "nao encontrado" >>}

\* What qa_chain.invoke does: `fails` names the stage that raises ("none":
\* it returns a response, with or without the "result" key); total_tokens
\* and total_cost are what the callback has counted, the cost in cents.
Invocations ==
    [fails : {"none", "generation", "execution", "synthesis"},
     has_result : BOOLEAN,
     result : Answers,
     intermediate_steps : {<< >>} \cup {<< a >> : a \in Steps}
                              \cup {<< a, b >> : a \in Steps, b \in Steps},
     total_tokens : {0, 350},
     total_cost : {0, 7}]

\* for step in intermediate_steps: the last "query" and the last "context".
RECURSIVE LastQuery(_, _, _)
LastQuery(steps, i, cypher_query) ==
    IF i > Len(steps) THEN cypher_query
    ELSE LastQuery(steps, i + 1,
                   IF steps[i].dict /\ steps[i].has_query
                   THEN steps[i].query ELSE cypher_query)

RECURSIVE LastContext(_, _, _)
LastContext(steps, i, raw_results) ==
    IF i > Len(steps) THEN raw_results
    ELSE LastContext(steps, i + 1,
                     IF steps[i].dict /\ steps[i].has_context
                     THEN steps[i].context ELSE raw_results)

\* The exception raised inside the try block, NoError when there is none.
AskError(inv) ==
    IF inv.fails # "none" THEN inv.fails
    ELSE IF ~inv.has_result THEN "KeyError: result"
    ELSE NoError

Degraded_reraise(question, e) ==
    [question |-> question,
     answer |-> << "Erro ao processar pergunta:", e >>,
     cypher_query |-> "",
     raw_results |-> << >>,
     tokens_used |-> 0,
     cost |-> 0,
     raised |-> e]

\* except Exception as e: the degraded result is returned, nothing is raised.
Degraded(question, e) ==
    [question |-> question,
     answer |-> << "Erro ao processar pergunta:", e >>,
     cypher_query |-> "",
     raw_results |-> << >>,
     tokens_used |-> 0,
     cost |-> 0,
     raised |-> NoError]

ask_with_context(question, inv) ==
    IF AskError(inv) # NoError THEN Degraded(question, AskError(inv))
    ELSE [question |-> question,
          answer |-> inv.result,
          cypher_query |-> LastQuery(inv.intermediate_steps, 1, ""),
          raw_results |-> LastContext(inv.intermediate_steps, 1, << >>),
          tokens_used |-> inv.total_tokens,
          cost |-> inv.total_cost,
          raised |-> NoError]

\* invocation: what the chain did in the call that produced `answer`.
Ask ==
    /\ answer.question = "-"
    /\ \E question \in Questions, inv \in Invocations :
          answer' = [result |-> ask_with_context(question, inv),
                     question |-> question, invocation |-> inv]
    /\ UNCHANGED << builder_vars, entry_vars >>

(***************************************************************************)
(* validate_knowledge_base.  str.lower is given by its table on the        *)
(* phrases of the model; `phrase in text` is membership of the phrase.     *)
(***************************************************************************)
test_questions ==
    << "Quantos personagens existem no grafo?",
       "Quais sao os filmes da trilogia original?",
       "Quais planetas tem clima arido?",
       "Quem sao os Jedi no grafo?",
       "Quais eventos acontecem em Tatooine?",
       "Quantos planetas existem no grafo?" >>

NotFound == "nao encontrado"

lower(phrase) ==
    CASE phrase = "Nao encontrado" -> "nao encontrado"
      [] phrase = "Luke Skywalker e Leia Organa" -> "luke skywalker e leia organa"
      [] phrase = "Erro ao processar pergunta:" -> "erro ao processar pergunta:"
      [] phrase = "KeyError: result" -> "keyerror: result"
      [] OTHER -> phrase

Lower(text) == [i \in 1..Len(text) |-> lower(text[i])]

In(phrase, text) == \E i \in 1..Len(text) : text[i] = phrase

has_answer_unless_error(text) ==
    /\ text # << >>
    /\ ~In(NotFound, Lower(text))
    /\ text[1] # "Erro ao processar pergunta:"

\* bool(result["answer"] and "nao encontrado" not in result["answer"].lower())
has_answer(text) == text # << >> /\ ~In(NotFound, Lower(text))

\* What the chain does for one test question: it answers with a query and
\* rows, with an answer that is empty or says the data was not found, or it
\* fails in the execution or returns a response without the "result" key.
TestInvocations ==
    {[fails |-> "none", has_result |-> TRUE, result |-> a,
      intermediate_steps |->
          << Step(TRUE, TRUE, "MATCH (p:Planeta) RETURN p.nome", FALSE, << >>) >>,
      total_tokens |-> 350, total_cost |-> 7] :
        a \in Answers \cup {<< "Nao encontrado" >>}}
    \cup
    {[fails |-> f, has_result |-> f # "none", result |-> << >>,
      intermediate_steps |-> << >>, total_tokens |-> 350, total_cost |-> 7] :
        f \in {"none", "execution"}}

\* One entry of validation_results; answer_length, the number of characters
\* of the answer, is left out.
Entry(result) ==
    [question |-> result.question,
     has_answer |-> has_answer(result.answer),
     cypher_generated |-> result.cypher_query # "",
     tokens_used |-> result.tokens_used]

\* success_rate is the fraction num / den.
validate_knowledge_base(invs) ==
    LET validation_results ==
            [i \in 1..Len(test_questions) |->
                Entry(ask_with_context(test_questions[i], invs[i]))]
        total_questions == Len(validation_results)
        answered_questions ==
            Cardinality({i \in 1..Len(validation_results) :
                            validation_results[i].has_answer})
    IN  [total_questions |-> total_questions,
         answered_questions |-> answered_questions,
         success_rate |-> [num |-> answered_questions * 100,
                           den |-> total_questions],
         results |-> validation_results,
         invocations |-> invs]

\* `answer` is left at the result of the last of the six calls.
ValidateKnowledgeBase ==
    /\ answer.question = "-"
    /\ \E invs \in [1..Len(test_questions) -> TestInvocations] :
          /\ validation' = validate_knowledge_base(invs)
          /\ answer' = [result |-> ask_with_context(
                                       test_questions[Len(test_questions)],
                                       invs[Len(test_questions)]),
                        question |-> test_questions[Len(test_questions)],
                        invocation |-> invs[Len(test_questions)]]
    /\ UNCHANGED << builder_vars, environ, boot, session >>

\* The caller has read the result (ask_simple, main) and may ask again.
Answered ==
    /\ answer.question # "-"
    /\ answer' = NoAnswer
    /\ validation' = NoValidation
    /\ UNCHANGED << builder_vars, environ, boot, session >>

NextQA == Ask \/ ValidateKnowledgeBase \/ Answered

SpecQA == Init /\ [][NextQA]_vars

(***************************************************************************)
(* The interactive loop of main (src/qa.py).  A line typed by the user is  *)
(* a sequence of characters; one iteration of the loop is one action.      *)
(***************************************************************************)
Whitespace == {" ", "\t"}

Lines ==
    { << "q", "u", "i", "t" >>,
      << " ", "Q", "U", "I", "T", " " >>,
      << "E", "x", "i", "t" >>,
      << "s", "a", "i", "r", "\t" >>,
      << >>,
      << " ", "\t" >>,
      << "q", "u", "i", "t", "?" >>,
      << "s", "a", " ", "i", "r" >>,
      << "Q", "u", "e", "m", "?" >> }

\* str.lower on one character, for the letters of Lines.
lower_char(c) ==
    CASE c = "Q" -> "q"
      [] c = "U" -> "u"
      [] c = "I" -> "i"
      [] c = "T" -> "t"
      [] c = "E" -> "e"
      [] OTHER -> c

lower_line(line) == [i \in 1..Len(line) |-> lower_char(line[i])]

RECURSIVE lstrip(_)
lstrip(line) ==
    IF line # << >> /\ Head(line) \in Whitespace THEN lstrip(Tail(line))
    ELSE line

RECURSIVE rstrip(_)
rstrip(line) ==
    IF line # << >> /\ line[Len(line)] \in Whitespace
    THEN rstrip(SubSeq(line, 1, Len(line) - 1))
    ELSE line

strip(line) == rstrip(lstrip(line))

\* ['quit', 'exit', 'sair']
exit_words ==
    { << "q", "u", "i", "t" >>, << "e", "x", "i", "t" >>, << "s", "a", "i", "r" >> }

\* What input() does: it returns a line, or raises; at_end says that the
\* standard input has reached its end, where every later read raises
\* EOFError (an end of input typed at a terminal does not last).
InputEvents ==
    {[raises |-> NoError, line |-> l, at_end |-> FALSE] : l \in Lines}
    \cup {[raises |-> e, line |-> << >>, at_end |-> FALSE] :
              e \in {"KeyboardInterrupt", "UnicodeDecodeError"}}
    \cup {[raises |-> "EOFError", line |-> << >>, at_end |-> b] : b \in BOOLEAN}

\* What happens while the question is answered and the three lines are
\* printed: the chain behaves as inv, or the user interrupts, or a print
\* raises.
AnswerEvents ==
    {[raises |-> NoError, inv |-> inv] : inv \in TestInvocations}
    \cup {[raises |-> e, inv |-> "-"] :
              e \in {"KeyboardInterrupt", "UnicodeEncodeError"}}

IsException_but_EOFError(e) == e \notin {"KeyboardInterrupt", "EOFError"}

\* `except Exception` catches e: KeyboardInterrupt is not an Exception.
IsException(e) == e # "KeyboardInterrupt"

\* The two handlers of the loop; an exception that neither catches leaves
\* main.
Handle(s, e) ==
    IF e = "KeyboardInterrupt"
    THEN [s EXCEPT !.state = "ended", !.printed = "farewell"]
    ELSE IF IsException(e)
    THEN [s EXCEPT !.printed = "error"]
    ELSE [s EXCEPT !.state = "ended", !.printed = "traceback"]

\* The body of `while True` with the input event ev and, when a question is
\* asked, the answering event act.
Iteration(s, ev, act) ==
    LET question == strip(ev.line)
        read == [s EXCEPT !.reads = @ + 1,
                          !.eof = @ \/ ev.at_end,
                          !.last = [input |-> ev, answering |-> NoAnswering],
                          !.asked = FALSE,
                          !.result = "-",
                          !.printed = "nothing"]
        asked == [read EXCEPT !.asked = TRUE, !.last.answering = act]
    IN  IF ev.raises # NoError THEN Handle(read, ev.raises)
        ELSE IF lower_line(question) \in exit_words
        THEN [read EXCEPT !.state = "ended", !.printed = "farewell"]
        ELSE IF question # << >>
        THEN IF act.raises # NoError THEN Handle(asked, act.raises)
             ELSE [asked EXCEPT !.result = ask_with_context(question, act.inv),
                                !.printed = "answer"]
        ELSE read

\* main reaches the loop; the standard input may already be at its end.
EnterLoop ==
    /\ session.state = "off"
    /\ \E eof \in BOOLEAN :
          session' = [NoSession EXCEPT !.state = "reading", !.eof = eof]
    /\ UNCHANGED << builder_vars, answer, environ, boot, validation >>

Prompt ==
    /\ session.state = "reading"
    /\ session.reads < MaxReads
    /\ \E ev \in InputEvents, act \in AnswerEvents :
          /\ session.eof =>
                \/ ev.raises = "KeyboardInterrupt"
                \/ ev.raises = "EOFError" /\ ev.at_end
          /\ session' = Iteration(session, ev, act)
    /\ UNCHANGED << builder_vars, answer, environ, boot, validation >>

NextLoop == EnterLoop \/ Prompt

SpecLoop == Init /\ [][NextLoop]_vars

(***************************************************************************)
(* Properties.                                                             *)
(***************************************************************************)
RECURSIVE SizeOfLoaded(_, _)
SizeOfLoaded(lg, i) ==
    IF i > Len(lg) THEN 0
    ELSE (IF lg[i].outcome = "ok" THEN lg[i].size ELSE 0) + SizeOfLoaded(lg, i + 1)

Names(stmts) == [i \in 1..Len(stmts) |-> stmts[i].name]
Attempted(lg) == [i \in 1..Len(lg) |-> lg[i].stmt]

Zero == [total_nodes |-> 0, total_relationships |-> 0]

\* C1: the value process_chunks_to_graph returns is the number of nodes plus
\* relationships of exactly the chunks that were both extracted and loaded.
C1_CountsOnlyLoadedChunks ==
    op = "chunks" => total.ret = SizeOfLoaded(log, 1)

\* C2: a failing extraction or load of a chunk never escapes
\* process_chunks_to_graph and never stops the loop: every chunk of the list
\* is attempted exactly once, in document order.
C2_ChunkFailuresIsolated ==
    op = "chunks" =>
        /\ raised = NoError
        /\ Len(log) = total.chunks
        /\ \A i \in 1..Len(log) : log[i].stmt = i

C2_Witness ==
    /\ op = "chunks"
    /\ Len(log) >= 2
    /\ log[1].outcome # "ok"
    /\ log[Len(log)].outcome = "ok"

\* C3: the totals validate_graph reports are the sizes of the graph: the
\* number of nodes, and the number of relationships, which is also the sum
\* of the per-type relationship counts of the same result.
C3_TotalsAreGraphSizes ==
    (op = "validate" /\ raised = NoError) =>
        /\ stats.totals.total_nodes = Len(nodes)
        /\ stats.totals.total_relationships = BagCardinality(rels)
        /\ stats.totals.total_relationships = BagCardinality(stats.relationship_counts)

\* C4: add_manual_knowledge applied to a graph that already holds the
\* curated facts adds no node and no relationship.
C4_SeedingTwiceAddsNothing ==
    (op = "manual" /\ before.seeded) =>
        /\ Len(nodes) = before.nodes
        /\ BagCardinality(rels) = before.relationships

\* C5: in every reachable state, no label with a declared uniqueness
\* constraint has two nodes with the same value of its identifying property.
C5_UniqueKeys ==
    \A l \in ConstrainedLabels : ~Duplicated(nodes, l)

\* C6: when add_manual_knowledge has run and none of its statements failed
\* for a reason of the database connection, the curated films, characters,
\* planets and family relationships are in the graph, whatever the
\* extraction had merged before.
C6_ManualBaseline ==
    (op = "manual" /\ Faulted(log) = {}) => CuratedPresent(DB)

Asked == answer.question # "-"

ChainFailed(inv) == inv.fails # "none" \/ ~inv.has_result

HasQuery(step) == step.dict /\ step.has_query
HasContext(step) == step.dict /\ step.has_context

\* C7: ask_with_context never lets a failure escape: when the generation,
\* the execution, the synthesis or the reading of the result fields fails
\* it returns an error text, an empty query, no rows and zero usage;
\* otherwise it returns the answer, the generated query, the rows and the
\* usage counters of the chain.
C7_AskNeverRaises ==
    Asked =>
        LET inv == answer.invocation
            res == answer.result
            steps == inv.intermediate_steps
        IN  /\ res.raised = NoError
            /\ res.question = answer.question
            /\ ChainFailed(inv) =>
                  /\ res.answer[1] = "Erro ao processar pergunta:"
                  /\ res.cypher_query = ""
                  /\ res.raw_results = << >>
                  /\ res.tokens_used = 0
                  /\ res.cost = 0
            /\ ~ChainFailed(inv) =>
                  /\ res.answer = inv.result
                  /\ res.tokens_used = inv.total_tokens
                  /\ res.cost = inv.total_cost
                  /\ \A i \in 1..Len(steps) :
                        /\ (HasQuery(steps[i]) /\ \A j \in (i + 1)..Len(steps) : ~HasQuery(steps[j]))
                              => res.cypher_query = steps[i].query
                        /\ (HasContext(steps[i]) /\ \A j \in (i + 1)..Len(steps) : ~HasContext(steps[j]))
                              => res.raw_results = steps[i].context
                  /\ (\A i \in 1..Len(steps) : ~HasQuery(steps[i])) => res.cypher_query = ""
                  /\ (\A i \in 1..Len(steps) : ~HasContext(steps[i])) => res.raw_results = << >>

C7_Witness ==
    /\ Asked
    /\ answer.invocation.fails = "synthesis"
    /\ answer.invocation.total_tokens > 0
    /\ answer.result.tokens_used = 0
    /\ answer.result.raised = NoError

\* C8: a failing clear, constraint, index or manual statement never escapes
\* its method and never stops it: every statement of the method is attempted
\* exactly once, in order, and run_pipeline goes on with the following step.
C8_StatementFailuresIsolated ==
    /\ op = "clear" =>
          /\ raised = NoError
          /\ Attempted(log) = Names(<< clear_statement >>)
          /\ pc \in {"idle", "schema"}
    /\ op = "schema" =>
          /\ raised = NoError
          /\ Attempted(log) = Names(constraint_statements \o index_statements)
          /\ pc \in {"idle", "load"}
    /\ op = "manual" =>
          /\ raised = NoError
          /\ Attempted(log) = Names(manual_data)
          /\ pc \in {"idle", "validate"}
    /\ pipe = "raised" => op \in {"load", "validate"}

C8_Witness ==
    /\ op = "schema"
    /\ pipe = "running"
    /\ pc = "load"
    /\ log[1].outcome = "fault"
    /\ Len(log) = Len(constraint_statements) + Len(index_statements)
    /\ \A i \in 2..Len(log) : log[i].outcome = "ok"

\* C9 as stated: after clear_existing_data, validate_graph reports zero
\* nodes and zero relationships, whatever the graph held before.
C9_ClearThenStatsZero ==
    op = "clear" => validate_graph(DB, 0).stats.totals = Zero

\* C9 amended: when the delete statement of clear_existing_data does not
\* fail, a validate_graph run on the graph it leaves reports zero nodes and
\* zero relationships, whatever the graph held before; when the statement
\* fails, the failure is only logged and the graph keeps its size.
C9_ClearOkThenStatsZero ==
    op = "clear" =>
        /\ log[1].outcome = "ok" =>
              /\ validate_graph(DB, 0).raised = NoError
              /\ validate_graph(DB, 0).stats.totals = Zero
        /\ log[1].outcome # "ok" =>
              /\ Len(nodes) = before.nodes
              /\ BagCardinality(rels) = before.relationships

C9_Witness ==
    /\ op = "clear"
    /\ log[1].outcome = "ok"
    /\ before.nodes > 0
    /\ before.relationships > 0
    /\ validate_graph(DB, 0).stats.totals = Zero

\* C10: on an empty graph validate_graph, unless a query fails on the
\* connection, returns without error, with both totals 0 and with empty
\* label and relationship-type mappings; on a graph with nodes and without
\* relationships total_relationships is 0.
C10_StatsOnEmptyGraph ==
    (op = "validate" /\ raised # "QueryError") =>
        /\ Len(nodes) = 0 =>
              /\ raised = NoError
              /\ stats.totals = Zero
              /\ DOMAIN stats.node_counts = {}
              /\ DOMAIN stats.relationship_counts = {}
        /\ BagCardinality(rels) = 0 =>
              /\ raised = NoError
              /\ stats.totals.total_relationships = 0
              /\ stats.totals.total_nodes = Len(nodes)

C10_Witness ==
    /\ op = "validate"
    /\ raised = NoError
    /\ Len(nodes) = 0
    /\ stats.totals = Zero

FirstMissing ==
    LET missing == {i \in 1..Len(required_vars) :
                        environ[required_vars[i]] \in {None, ""}}
    IN  IF missing = {} THEN 0
        ELSE CHOOSE i \in missing : \A j \in missing : i <= j

\* C11: once setup_environment has run, if one of the four required keys is
\* absent or empty the constructor has failed with a ValueError naming the
\* first such key in the order OPENAI_API_KEY, NEO4J_URI, NEO4J_USERNAME,
\* NEO4J_PASSWORD, no key after it has been looked at, none has been looked
\* at twice and no component has been created; if all four have a value,
\* each key has been looked at once and the constructor has gone on to
\* create the LLM client.
C11_FirstMissingKeyFails ==
    boot.pc \notin {"off", "setup_environment"} =>
        /\ FirstMissing # 0 =>
              /\ boot.pc = "failed"
              /\ boot.raised = "ValueError"
              /\ boot.key = required_vars[FirstMissing]
              /\ boot.read = SubSeq(required_vars, 1, FirstMissing)
              /\ boot.created = << >>
        /\ FirstMissing = 0 =>
              /\ boot.raised # "ValueError"
              /\ boot.key = NoKey
              /\ boot.read = required_vars
              /\ boot.pc \in {"llm", "graph", "last", "ready", "failed"}
              /\ boot.pc \in {"graph", "last", "ready"} => boot.created[1] = "llm"

C11_Witness ==
    /\ boot.pc = "failed"
    /\ boot.key = "NEO4J_USERNAME"
    /\ environ["NEO4J_USERNAME"] = ""
    /\ environ["NEO4J_PASSWORD"] = None
    /\ boot.created = << >>

Validated == validation.total_questions # 0

FailedQuestions ==
    {i \in 1..Len(validation.invocations) : ChainFailed(validation.invocations[i])}

\* C12: in the value validate_knowledge_base returns, a test question whose
\* ask_with_context failed is recorded with cypher_generated false and
\* has_answer true, so answered_questions is at least the number of failed
\* questions, and success_rate is 100 when all six questions failed.
C12_FailuresCountAsAnswered ==
    Validated =>
        /\ \A i \in FailedQuestions :
              /\ ~validation.results[i].cypher_generated
              /\ validation.results[i].has_answer
        /\ validation.answered_questions >= Cardinality(FailedQuestions)
        /\ Cardinality(FailedQuestions) = validation.total_questions =>
              validation.success_rate.num = 100 * validation.success_rate.den

C12_Witness ==
    /\ Validated
    /\ validation.total_questions = 6
    /\ Cardinality(FailedQuestions) = 6
    /\ validation.answered_questions = 6
    /\ validation.success_rate = [num |-> 600, den |-> 6]

PathNotFound == op = "load" /\ raised = "FileNotFoundError"

\* What C13 says of every run_pipeline that finds no document: the error
\* reaches the caller, and the steps run are the clear step (when asked
\* for), the schema step and the path check: no extraction, no manual fact
\* and no statistics query.
StoppedAtPathCheck ==
    /\ pipe = "raised"
    /\ pc = "idle"
    /\ trace = (IF run.clear_existing THEN << "clear" >> ELSE << >>)
                   \o << "schema", "load" >>
    /\ run.clear_existing <=> run.clear # "-"
    /\ total = NoTotal
    /\ stats = NoStats

\* C13 as stated: a run_pipeline with clear_existing = true and a path that
\* does not exist ends with the not-found error after the clear step and the
\* schema step only, and the nodes and relationships the graph held before
\* the run have been deleted.
C13_PathCheckedAfterDelete ==
    (PathNotFound /\ run.clear_existing) =>
        /\ StoppedAtPathCheck
        /\ Len(nodes) = 0
        /\ BagCardinality(rels) = 0

\* C13 amended: a run_pipeline with clear_existing = true and a path that
\* does not exist ends with the not-found error after the clear step and the
\* schema step only; when the delete statement of the clear step did not
\* fail, the nodes and relationships the graph held before the run have been
\* deleted; when it failed, the failure was only logged and the graph holds
\* as many nodes and relationships as before the run.
C13_PathCheckedAfterClearStep ==
    PathNotFound =>
        /\ StoppedAtPathCheck
        /\ (run.clear_existing /\ run.clear = "ok") =>
              /\ Len(nodes) = 0
              /\ BagCardinality(rels) = 0
        /\ (run.clear_existing /\ run.clear # "ok") =>
              /\ Len(nodes) = run.prior.nodes
              /\ BagCardinality(rels) = run.prior.relationships

C13_Witness ==
    /\ PathNotFound
    /\ run.clear_existing
    /\ run.clear = "ok"
    /\ run.prior.nodes > 0
    /\ run.prior.relationships > 0
    /\ Len(nodes) = 0
    /\ BagCardinality(rels) = 0
    /\ pipe = "raised"

Interrupted ==
    \/ session.last.input.raises = "KeyboardInterrupt"
    \/ session.last.answering.raises = "KeyboardInterrupt"

\* The line is an exit word in any case between leading and trailing
\* white space.
ExitLine(line) ==
    \E i \in 1..Len(line), j \in 1..Len(line) :
        /\ \A k \in 1..(i - 1) : line[k] \in Whitespace
        /\ \A k \in (j + 1)..Len(line) : line[k] \in Whitespace
        /\ [k \in 1..(j - i + 1) |-> lower_char(line[i + k - 1])] \in exit_words

BlankLine(line) == \A k \in 1..Len(line) : line[k] \in Whitespace

\* C14: the interactive loop has ended only after a line that, trimmed and
\* lower-cased, is quit, exit or sair, or after a KeyboardInterrupt; such a
\* line always ends it; a blank line calls no ask_with_context and prints
\* nothing; any other exception of the reading or of the answering is
\* printed and the loop reads again; once the standard input is at its end
\* only a KeyboardInterrupt ends the loop.
C14_LoopEndsOnExitWordOrInterrupt ==
    LET input == session.last.input
        answering == session.last.answering
    IN  session.reads > 0 =>
            /\ session.state = "ended" <=>
                  \/ Interrupted
                  \/ input.raises = NoError /\ ExitLine(input.line)
            /\ (input.raises = NoError /\ BlankLine(input.line)) =>
                  /\ ~session.asked
                  /\ session.printed = "nothing"
                  /\ session.state = "reading"
            /\ (input.raises = NoError /\ ~BlankLine(input.line)
                    /\ ~ExitLine(input.line)) => session.asked
            /\ (~Interrupted /\ (input.raises # NoError \/ answering.raises # NoError)) =>
                  /\ session.printed = "error"
                  /\ session.state = "reading"
            /\ (session.eof /\ session.state = "ended") => Interrupted

C14_Witness ==
    /\ session.state = "reading"
    /\ session.reads = MaxReads
    /\ session.eof
    /\ session.last.input.raises = "EOFError"
    /\ session.printed = "error"
    /\ ~session.asked

====
